---- MODULE Spec2Model ----
(***************************************************************************)
(* A model of colors-rs: the fixed-point colour conversions and the pixel  *)
(* buffer of src/lib.rs, and the floating-point HSL pipeline of            *)
(* src/main.rs.                                                            *)
(*                                                                         *)
(* An RGB value is a tuple <<r, g, b>> of bytes, an HWB value a tuple      *)
(* <<hue, whiteness, blackness>>.  Rust's integer division and remainder   *)
(* truncate toward zero and `as u8` keeps the low eight bits; both are     *)
(* modelled explicitly because TLA+'s \div and % round toward minus        *)
(* infinity.                                                               *)
(***************************************************************************)
EXTENDS Integers, Sequences, FiniteSets, TLC

VARIABLES
    pc,      \* position of the running call: "call", "done", "back", ...
    fn,      \* the entry point under execution
    arg,     \* its argument
    ret,     \* its result (None until produced)
    out,     \* the result of the second stage of a pipeline (None until produced)
    pixels,  \* the Pixels buffer: [width, height, data]
    loop     \* the loop counters of palette and hue_palette

vars == <<pc, fn, arg, ret, out, pixels, loop>>

None == "none"
NoPixels == [width |-> 0, height |-> 0, data |-> <<>>, panicked |-> FALSE]

-----------------------------------------------------------------------------
(* Rust integer arithmetic *)

\* i32 `/`: truncates toward zero (divisor positive in every use).
TruncDiv(a, b) == IF a >= 0 THEN a \div b ELSE -((-a) \div b)

\* i32 `%`: the remainder has the sign of the dividend.
TruncRem(a, b) == a - b * TruncDiv(a, b)

\* `as u8`: the low eight bits.
AsU8(n) == n % 256

Byte == 0..255

-----------------------------------------------------------------------------
(* src/lib.rs: fixed-point colour math *)

rgb(v) == << ((v \div 65536) % 256), ((v \div 256) % 256), (v % 256) >>

min(c) ==
    LET m01 == IF c[1] <= c[2] THEN c[1] ELSE c[2]
    IN  IF m01 <= c[3] THEN m01 ELSE c[3]

max(c) ==
    LET m01 == IF c[1] >= c[2] THEN c[1] ELSE c[2]
    IN  IF m01 >= c[3] THEN m01 ELSE c[3]

\* Variant: hue_to_rgb with x where the table has y.
HueToRgbNoComplement(hue) ==
    LET h == hue \div 600
        x == AsU8(((hue % 600) * 255) \div 600)
        s == AsU8(h) % 6
    IN  CASE s = 0 -> <<255, x, 0>>
          [] s = 1 -> <<x, 255, 0>>
          [] s = 2 -> <<0, 255, x>>
          [] s = 3 -> <<0, x, 255>>
          [] s = 4 -> <<x, 0, 255>>
          [] s = 5 -> <<255, 0, x>>

hue_to_rgb(hue) ==
    LET h == hue \div 600
        x == AsU8(((hue % 600) * 255) \div 600)
        y == 255 - x
        s == AsU8(h) % 6
    IN  CASE s = 0 -> <<255, x, 0>>
          [] s = 1 -> <<y, 255, 0>>
          [] s = 2 -> <<0, 255, x>>
          [] s = 3 -> <<0, y, 255>>
          [] s = 4 -> <<x, 0, 255>>
          [] s = 5 -> <<255, 0, y>>

\* Both branches of rgb_to_hue return 0.
rgb_to_hue(c) ==
    LET delta == max(c) - min(c)
    IN  IF delta = 0 THEN 0 ELSE 0

gray(value) ==
    LET g == AsU8((255 * value) \div 1000)
    IN  <<g, g, g>>

\* Variant: mix dividing delta alone.
MixSeparateDivision(p, a, b) ==
    [i \in 1..3 |-> AsU8(a[i] + TruncDiv((b[i] - a[i]) * p, 1000))]

mix(p, a, b) ==
    [i \in 1..3 |->
        LET start == a[i] * 1000
            delta == (b[i] - a[i]) * p
        IN  AsU8(TruncDiv(start + delta, 1000))]

\* The intermediate values of hwb_to_rgb's chromatic path, before any cast.
hwb_w(hwb) == (255 * hwb[2]) \div 1000
hwb_b(hwb) == (255 * hwb[3]) \div 1000
hwb_v(hwb) == 255 - AsU8(hwb_b(hwb))
hwb_ramp(hwb) ==
    LET h == hwb[1] \div 600
        x == ((hwb[1] % 600) * 1000) \div 600
    IN  IF h % 2 = 1 THEN 1000 - x ELSE x
hwb_scaled(hwb) ==
    TruncDiv(hwb_ramp(hwb) * (hwb_v(hwb) - AsU8(hwb_w(hwb))), 1000)
hwb_x(hwb) == AsU8(hwb_w(hwb)) + AsU8(hwb_scaled(hwb))

\* Variant: the chromatic path without the inversion of x in odd sectors.
HwbChromaticNoInversion(hwb) ==
    LET w == AsU8(hwb_w(hwb))
        v == hwb_v(hwb)
        h == hwb[1] \div 600
        r == ((hwb[1] % 600) * 1000) \div 600
        x == AsU8(w + AsU8(TruncDiv(r * (v - w), 1000)))
        s == AsU8(h) % 6
    IN  CASE s = 0 -> <<v, x, w>>
          [] s = 1 -> <<x, v, w>>
          [] s = 2 -> <<w, v, x>>
          [] s = 3 -> <<w, x, v>>
          [] s = 4 -> <<x, w, v>>
          [] s = 5 -> <<v, w, x>>

\* hwb_to_rgb below its early return: the chromatic path.  The u8 sum
\* w + scaled is taken modulo 256, as a release build does; hwb_x is the sum
\* itself.
hwb_chromatic(hwb) ==
    LET w == AsU8(hwb_w(hwb))
        v == hwb_v(hwb)
        h == hwb[1] \div 600
        x == AsU8(hwb_x(hwb))
        s == AsU8(h) % 6
    IN  CASE s = 0 -> <<v, x, w>>
          [] s = 1 -> <<x, v, w>>
          [] s = 2 -> <<w, v, x>>
          [] s = 3 -> <<w, x, v>>
          [] s = 4 -> <<x, w, v>>
          [] s = 5 -> <<v, w, x>>

\* Variant: hwb_to_rgb returning early only for v > 1000.
HwbToRgbStrictOverflow(hwb) ==
    LET v == hwb[2] + hwb[3]
    IN  IF v > 1000
        THEN gray((1000 * hwb[2]) \div v)
        ELSE hwb_chromatic(hwb)

hwb_to_rgb(hwb) ==
    LET v == hwb[2] + hwb[3]
    IN  IF v >= 1000
        THEN gray((1000 * hwb[2]) \div v)
        ELSE hwb_chromatic(hwb)

\* The chroma term f and the chroma range d of rgb_to_hwb's hue branch.
rgb_to_hwb_f(c) ==
    LET v == max(c)
        diff == IF c[1] = v THEN c[2] - c[3]
                ELSE IF c[2] = v THEN c[3] - c[1]
                ELSE c[1] - c[2]
    IN  TruncDiv(diff * 1000, 256)
rgb_to_hwb_d(c) == TruncDiv((max(c) - min(c)) * 1000, 256)

\* Variant: the hue without the final + 3600 and % 3600.
RgbToHwbHueNoWrap(c) ==
    LET v == max(c)
        sector == IF c[1] = v THEN 0 ELSE IF c[2] = v THEN 2 ELSE 4
    IN  IF v /= min(c)
        THEN TruncRem(sector * 600, 3600)
                 + TruncDiv(600 * rgb_to_hwb_f(c), rgb_to_hwb_d(c))
        ELSE 0

\* The hue of rgb_to_hwb.  `hue as u32` keeps hue unless it is negative.
rgb_to_hwb_hue(c) ==
    LET v == max(c)
        sector == IF c[1] = v THEN 0 ELSE IF c[2] = v THEN 2 ELSE 4
        hue0 == TruncRem(sector * 600, 3600)
        hue1 == hue0 + TruncDiv(600 * rgb_to_hwb_f(c), rgb_to_hwb_d(c))
    IN  IF v /= min(c) THEN TruncRem(hue1 + 3600, 3600) ELSE 0

\* Variant: rgb_to_hwb scaling whiteness and blackness by 1000/256.
RgbToHwbDivisor256(c) ==
    LET w == min(c)
        black == 255 - max(c)
    IN  <<rgb_to_hwb_hue(c), (w * 1000) \div 256, (black * 1000) \div 256>>

rgb_to_hwb(c) ==
    LET w == min(c)
        black == 255 - max(c)
    IN  <<rgb_to_hwb_hue(c), (w * 1000) \div 255, (black * 1000) \div 255>>

-----------------------------------------------------------------------------
(* src/lib.rs: the pixel buffer *)

\* A Pixels value carries, besides the struct's fields, whether an indexing
\* of data has panicked; nothing is written after a panic.  The Vec<u8> data
\* is kept as its consecutive runs of width * 3 bytes: byte i of the Vec
\* (counting from 0) is data[i \div (width * 3) + 1][i % (width * 3) + 1].
new(width, height) ==
    [width |-> width, height |-> height,
     data |-> [r \in 1..height |-> [i \in 1..(width * 3) |-> 255]],
     panicked |-> FALSE]

\* self.data.len()
len(p) == Len(p.data) * (p.width * 3)

\* Byte `index` of the Vec (counting from 0).
ByteAt(p, index) ==
    p.data[(index \div (p.width * 3)) + 1][(index % (p.width * 3)) + 1]

\* self.data[index] = byte, with Vec's bounds check.
store(p, index, byte) ==
    IF p.panicked \/ index >= len(p)
    THEN [p EXCEPT !.panicked = TRUE]
    ELSE [p EXCEPT !.data[(index \div (p.width * 3)) + 1]
                         [(index % (p.width * 3)) + 1] = byte]

set(p, x, y, c) ==
    LET index == (y * p.width + x) * 3
    IN  store(store(store(p, index, c[1]), index + 1, c[2]), index + 2, c[3])

\* rect's inner loop: for y in y..=yend.
RECURSIVE rect_column(_, _, _, _, _)
rect_column(p, x, y, yend, c) ==
    IF y > yend \/ p.panicked
    THEN p
    ELSE rect_column(set(p, x, y, c), x, y + 1, yend, c)

\* rect's outer loop: for x in x..=xend.
RECURSIVE rect_columns(_, _, _, _, _, _)
rect_columns(p, x, xend, y, h, c) ==
    IF x > xend \/ p.panicked
    THEN p
    ELSE rect_columns(rect_column(p, x, y, y + h, c), x + 1, xend, y, h, c)

rect(p, x, y, w, h, c) == rect_columns(p, x, x + w, y, h, c)

\* The bytes of the pixel at (x, y) of a buffer.
PixelAt(p, x, y) ==
    LET index == (y * p.width + x) * 3
    IN  <<ByteAt(p, index), ByteAt(p, index + 1), ByteAt(p, index + 2)>>

SCALE == 4
STEPS == 8
SIZE == 2 ^ SCALE

\* Variant: palette_rect passing SIZE for SIZE - 1.
PaletteRectFullSize(color, w, b) ==
    [x |-> b * 2 ^ SCALE, y |-> w * 2 ^ SCALE, w |-> SIZE, h |-> SIZE,
     rgb |-> hwb_to_rgb(<<color[1], (1000 * w) \div (STEPS - 1),
                          (1000 * b) \div (STEPS - 1)>>)]

\* The arguments palette passes to rect for the swatch of step (w, b).
palette_rect(color, w, b) ==
    LET x == b * 2 ^ SCALE
        y == w * 2 ^ SCALE
        wh == (1000 * w) \div (STEPS - 1)
        bl == (1000 * b) \div (STEPS - 1)
    IN  [x |-> x, y |-> y, w |-> SIZE - 1, h |-> SIZE - 1,
         rgb |-> hwb_to_rgb(<<color[1], wh, bl>>)]

\* One iteration of palette's inner loop: the swatch of step (w, b).
palette_swatch(p, color, w, b) ==
    LET a == palette_rect(color, w, b)
    IN  rect(p, a.x, a.y, a.w, a.h, a.rgb)

\* hue_palette's grid; its SCALE and SIZE have the values of palette's.
WIDTH_STEPS == 360 \div 15
HEIGHT_STEPS == 200 \div 20

\* The arguments hue_palette passes to rect for the loop values (hue, value).
hue_palette_rect(hue, value) ==
    LET x == (hue \div 15) * 2 ^ SCALE
        y == (value \div 20) * 2 ^ SCALE
        b == 100 - (IF value + 10 <= 100 THEN value + 10 ELSE 100)
        w == IF value - 100 >= 0 THEN value - 100 ELSE 0
    IN  [x |-> x, y |-> y, w |-> SIZE - 1, h |-> SIZE - 1,
         rgb |-> hwb_to_rgb(<<hue * 10, w * 10, b * 10>>)]

\* One iteration of hue_palette's inner loop.
hue_palette_swatch(p, hue, value) ==
    LET a == hue_palette_rect(hue, value)
    IN  rect(p, a.x, a.y, a.w, a.h, a.rgb)

\* The file names the two renderers pass to save_image.
palette_name(color) == "images/palette" \o ToString(color[1] \div 10) \o ".png"
hue_palette_name == "images/hue_palette.png"

-----------------------------------------------------------------------------
(* src/main.rs: the floating-point HSL pipeline *)

\* An f32 is modelled by the integer number of 64ths it holds.  The hues
\* used are multiples of 15 degrees and saturation and luminance multiples
\* of 1/4, so that every quotient, product, sum and difference below is a
\* multiple of 1/64 of magnitude below 2^24/64: f32 computes each of them
\* without rounding (HslArithmeticExact checks the divisibility).
Unit == 2 ^ 6
F32(n) == n * Unit
FMul(a, b) == TruncDiv(a * b, Unit)
FDiv(a, b) == TruncDiv(a * Unit, b)
FAbs(a) == IF a < 0 THEN -a ELSE a

\* `as u8` of an f32: the fraction is dropped and the value saturates.
F32AsU8(a) ==
    LET t == TruncDiv(a, Unit)
    IN  IF t < 0 THEN 0 ELSE IF t > 255 THEN 255 ELSE t

\* Variant: hex rounding to the nearest byte.
HexRounded(v) == F32AsU8(FMul(v, F32(255)) + Unit \div 2)

hex(v) == F32AsU8(FMul(v, F32(255)))

\* impl Into<RGB> for &HSL; hsl = <<hue, saturation, luminance>>.
HSL_into_RGB(hsl) ==
    LET c == FMul(hsl[3], hsl[2])
        h == FDiv(hsl[1], F32(60))
        x == FMul(c, F32(1) - FAbs(TruncRem(h, F32(2)) - F32(1)))
        s == F32AsU8(h) % 6
        t == CASE s = 0 -> <<c, x, 0>>
               [] s = 1 -> <<x, c, 0>>
               [] s = 2 -> <<0, c, x>>
               [] s = 3 -> <<0, x, c>>
               [] s = 4 -> <<x, 0, c>>
               [] s = 5 -> <<c, 0, x>>
        m == hsl[3] - c
    IN  <<hex(t[1] + m), hex(t[2] + m), hex(t[3] + m)>>

from_hsl(hue, saturation, luminance) ==
    HSL_into_RGB(<<hue, saturation, luminance>>)

RGB_gray(intensity) == from_hsl(F32(0), F32(0), intensity)

HexDigit == <<"0", "1", "2", "3", "4", "5", "6", "7",
              "8", "9", "a", "b", "c", "d", "e", "f">>

\* {:02x} of a byte.
LowerHex2(byte) ==
    HexDigit[(byte \div 16) + 1] \o HexDigit[(byte % 16) + 1]

\* impl Display for RGB
RGB_fmt(c) == "#" \o LowerHex2(c[1]) \o LowerHex2(c[2]) \o LowerHex2(c[3])

-----------------------------------------------------------------------------
(* Inputs of the conversions *)

NHue == 60
NPermille == 40
NChannel == 48

Hues == 0..3599
SectorEdges == {600 * s + e : s \in 0..5, e \in {0, 1, 300, 599}}
HueSamples == {(k * 3599) \div NHue : k \in 0..NHue} \cup SectorEdges

\* The steps of test_hwb_block_red and of palette, and an even split.
PermilleSteps ==
    {0, 200, 400, 500, 600, 800, 1000} \cup {(1000 * i) \div 7 : i \in 0..7}
PermilleSamples ==
    {(k * 1000) \div NPermille : k \in 0..NPermille} \cup PermilleSteps
Permilles == 0..1000

ChannelSamples ==
    {(k * 255) \div NChannel : k \in 0..NChannel}
        \cup {0, 1, 51, 127, 128, 204, 254, 255}
PackedSamples ==
    {r * 65536 + g * 256 + b : r \in ChannelSamples, g \in ChannelSamples,
                               b \in ChannelSamples}
        \cup {c * 65536 + c * 256 + c : c \in Byte}

MixColours ==
    {<<255, 0, 127>>, <<0, 255, 127>>, <<0, 0, 0>>, <<255, 255, 255>>,
     <<204, 51, 51>>, <<1, 2, 3>>, <<10, 200, 77>>}

-----------------------------------------------------------------------------
(* Calls of the pure conversions *)

InitCall(f, inputs) ==
    /\ pc = "call"
    /\ fn = f
    /\ arg \in inputs
    /\ ret = None
    /\ out = None
    /\ pixels = NoPixels
    /\ loop = <<0, 0>>

Return(value) ==
    /\ pc = "call"
    /\ pc' = "done"
    /\ ret' = value
    /\ UNCHANGED <<fn, arg, out, pixels, loop>>

InitHueToRgb == InitCall("hue_to_rgb", Hues)

CallHueToRgb == fn = "hue_to_rgb" /\ Return(hue_to_rgb(arg))

InitMix == InitCall("mix", Permilles \X MixColours \X MixColours)

CallMix == fn = "mix" /\ Return(mix(arg[1], arg[2], arg[3]))

InitHwbToRgb ==
    InitCall("hwb_to_rgb", HueSamples \X PermilleSamples \X PermilleSamples)

CallHwbToRgb == fn = "hwb_to_rgb" /\ Return(hwb_to_rgb(arg))

\* test_convert's expression rgb_to_hwb(rgb(v)) on a packed colour v, and
\* the conversion of its result back to RGB.
InitRgbToHwb == InitCall("rgb_to_hwb", PackedSamples)

CallRgbToHwb == fn = "rgb_to_hwb" /\ Return(rgb_to_hwb(rgb(arg)))

CallHwbToRgbBack ==
    /\ fn = "rgb_to_hwb"
    /\ pc = "done"
    /\ pc' = "back"
    /\ out' = hwb_to_rgb(ret)
    /\ UNCHANGED <<fn, arg, ret, pixels, loop>>

InitGray == InitCall("gray", Permilles)

CallGray == fn = "gray" /\ Return(gray(arg))

InitRgbToHue ==
    InitCall("rgb_to_hue", ChannelSamples \X ChannelSamples \X ChannelSamples)

CallRgbToHue == fn = "rgb_to_hue" /\ Return(rgb_to_hue(arg))

SpecHueToRgb == InitHueToRgb /\ [][CallHueToRgb]_vars
SpecGray == InitGray /\ [][CallGray]_vars
SpecRgbToHue == InitRgbToHue /\ [][CallRgbToHue]_vars
SpecMix == InitMix /\ [][CallMix]_vars
SpecHwbToRgb == InitHwbToRgb /\ [][CallHwbToRgb]_vars
SpecRgbToHwb == InitRgbToHwb /\ [][CallRgbToHwb \/ CallHwbToRgbBack]_vars

-----------------------------------------------------------------------------
(* palette: one run per colour, the first colours of test_palettes *)

NPaletteHues == 3

PaletteColours ==
    {<<hue * 10, 0, 0>> :
        hue \in {h \in 0..359 : h % 30 = 0 /\ h \div 30 < NPaletteHues}}

InitPalette == InitCall("palette", PaletteColours)

\* let mut pixels = Pixels::new(width, height)
PaletteNew ==
    /\ fn = "palette"
    /\ pc = "call"
    /\ pixels' = new(STEPS * 2 ^ SCALE, STEPS * 2 ^ SCALE)
    /\ loop' = <<0, 0>>
    /\ pc' = "loop"
    /\ UNCHANGED <<fn, arg, ret, out>>

\* The body of the loops for (w, b) = loop, and the step to the next pair.
PaletteSwatch ==
    /\ fn = "palette"
    /\ pc = "loop"
    /\ LET w == loop[1]
           b == loop[2]
           filled == palette_swatch(pixels, arg, w, b)
       IN  /\ pixels' = filled
           /\ IF filled.panicked
              THEN pc' = "panic" /\ loop' = loop
              ELSE IF b + 1 < STEPS
              THEN pc' = "loop" /\ loop' = <<w, b + 1>>
              ELSE IF w + 1 < STEPS
              THEN pc' = "loop" /\ loop' = <<w + 1, 0>>
              ELSE pc' = "save" /\ loop' = loop
    /\ UNCHANGED <<fn, arg, ret, out>>

\* What a call of save_image can come to: the image is written, or one of
\* its three unwraps panics (File::create, write_header, write_image_data).
SaveOutcomes == {"saved", "File::create", "write_header", "write_image_data"}

\* pixels.save_image(&name), the last statement of palette and of
\* hue_palette.  Whether the file can be created and written is the file
\* system's choice.  The encoder is given width, height and 8-bit RGB and
\* takes width * height * 3 bytes, so data of another length cannot be
\* written.  ret is the file name with the outcome, out the buffer handed to
\* write_image_data.
SaveImage ==
    /\ fn \in {"palette", "hue_palette"}
    /\ pc = "save"
    /\ \E outcome \in SaveOutcomes :
           /\ outcome = "saved" => len(pixels) = pixels.width * pixels.height * 3
           /\ pc' = IF outcome = "saved" THEN "saved" ELSE "panic"
           /\ out' = IF outcome \in {"saved", "write_image_data"}
                     THEN pixels ELSE out
           /\ ret' = [name |-> IF fn = "palette" THEN palette_name(arg)
                               ELSE hue_palette_name,
                      outcome |-> outcome]
    /\ UNCHANGED <<fn, arg, pixels, loop>>

SpecPalette == InitPalette /\ [][PaletteNew \/ PaletteSwatch \/ SaveImage]_vars

-----------------------------------------------------------------------------
(* hue_palette: it takes no argument; loop holds its counters <<hue, value>> *)

InitHuePalette == InitCall("hue_palette", {None})

\* let mut pixels = Pixels::new(WIDTH_STEPS << SCALE, HEIGHT_STEPS << SCALE)
HuePaletteNew ==
    /\ fn = "hue_palette"
    /\ pc = "call"
    /\ pixels' = new(WIDTH_STEPS * 2 ^ SCALE, HEIGHT_STEPS * 2 ^ SCALE)
    /\ loop' = <<0, 0>>
    /\ pc' = "loop"
    /\ UNCHANGED <<fn, arg, ret, out>>

\* The body of the loops for (hue, value) = loop, and the step to the next
\* pair: hue in (0..360).step_by(15), value in (0..200).step_by(20).
HuePaletteSwatch ==
    /\ fn = "hue_palette"
    /\ pc = "loop"
    /\ LET hue == loop[1]
           value == loop[2]
           filled == hue_palette_swatch(pixels, hue, value)
       IN  /\ pixels' = filled
           /\ IF filled.panicked
              THEN pc' = "panic" /\ loop' = loop
              ELSE IF value + 20 < 200
              THEN pc' = "loop" /\ loop' = <<hue, value + 20>>
              ELSE IF hue + 15 < 360
              THEN pc' = "loop" /\ loop' = <<hue + 15, 0>>
              ELSE pc' = "save" /\ loop' = loop
    /\ UNCHANGED <<fn, arg, ret, out>>

SpecHuePalette ==
    InitHuePalette /\ [][HuePaletteNew \/ HuePaletteSwatch \/ SaveImage]_vars

-----------------------------------------------------------------------------
(* The HSL pipeline: convert, then format *)

\* The hues of HSL::primary_colors(15), the saturations of main and the
\* intensities of test_grays.
HslHues == {F32(hue) : hue \in {h \in 0..359 : h % 15 = 0}}
Quarters == {FDiv(F32(k), F32(4)) : k \in 0..4}

InitFromHsl == InitCall("from_hsl", HslHues \X Quarters \X Quarters)

CallFromHsl == fn = "from_hsl" /\ Return(from_hsl(arg[1], arg[2], arg[3]))

\* write!(colors, "{}\n", color)
FormatRgb ==
    /\ fn = "from_hsl"
    /\ pc = "done"
    /\ pc' = "shown"
    /\ out' = RGB_fmt(ret)
    /\ UNCHANGED <<fn, arg, ret, pixels, loop>>

SpecHsl == InitFromHsl /\ [][CallFromHsl \/ FormatRgb]_vars

\* No operation of the conversion rounds on these inputs.
HslArithmeticExact ==
    fn = "from_hsl" =>
        LET c == FMul(arg[3], arg[2])
            h == FDiv(arg[1], F32(60))
            tri == F32(1) - FAbs(TruncRem(h, F32(2)) - F32(1))
        IN  /\ (arg[3] * arg[2]) % Unit = 0
            /\ (arg[1] * Unit) % F32(60) = 0
            /\ (c * tri) % Unit = 0

-----------------------------------------------------------------------------
(* Writes to small buffers, inside and outside their bounds *)

MaxWidth == 2
MaxHeight == 2
MaxWrites == 2

PixelColours == {<<10, 20, 30>>, <<0, 0, 0>>}

\* ret is the buffer before the last write, arg the write, loop[1] the
\* number of writes made.
InitPixels ==
    /\ pc = "ready"
    /\ fn = "pixels"
    /\ arg = None
    /\ ret = None
    /\ out = None
    /\ \E width \in 1..MaxWidth, height \in 1..MaxHeight :
           pixels = new(width, height)
    /\ loop = <<0, 0>>

Written(call, result) ==
    /\ fn = "pixels"
    /\ pc = "ready"
    /\ loop[1] < MaxWrites
    /\ arg' = call
    /\ ret' = pixels
    /\ pixels' = result
    /\ pc' = IF result.panicked THEN "panic" ELSE "ready"
    /\ loop' = <<loop[1] + 1, 0>>
    /\ UNCHANGED <<fn, out>>

PixelsSet ==
    \E x \in 0..pixels.width, y \in 0..pixels.height, c \in PixelColours :
        Written([op |-> "set", x |-> x, y |-> y, w |-> 0, h |-> 0, rgb |-> c],
                set(pixels, x, y, c))

PixelsRect ==
    \E x \in 0..pixels.width, y \in 0..pixels.height, w \in 0..1, h \in 0..1,
       c \in PixelColours :
        Written([op |-> "rect", x |-> x, y |-> y, w |-> w, h |-> h, rgb |-> c],
                rect(pixels, x, y, w, h, c))

SpecPixels == InitPixels /\ [][PixelsSet \/ PixelsRect]_vars

-----------------------------------------------------------------------------
(* The whole program: any one of the runs above *)

Init ==
    \/ InitHueToRgb
    \/ InitMix
    \/ InitHwbToRgb
    \/ InitRgbToHwb
    \/ InitFromHsl
    \/ InitPalette
    \/ InitHuePalette
    \/ InitGray
    \/ InitRgbToHue
    \/ InitPixels

Next ==
    \/ CallHueToRgb
    \/ CallMix
    \/ CallHwbToRgb
    \/ CallRgbToHwb
    \/ CallHwbToRgbBack
    \/ CallFromHsl
    \/ FormatRgb
    \/ PaletteNew
    \/ PaletteSwatch
    \/ HuePaletteNew
    \/ HuePaletteSwatch
    \/ SaveImage
    \/ CallGray
    \/ CallRgbToHue
    \/ PixelsSet
    \/ PixelsRect

Spec == Init /\ [][Next]_vars

-----------------------------------------------------------------------------
(* Properties of the pixel buffer *)

\* C7: palette's buffer holds (S*K)*(S*K)*3 bytes, every fill stays inside
\* the buffer's width and height and none panics (the only panics of a run
\* are save_image's unwraps), and the buffer handed to save_image's encoder
\* shows in every pixel of swatch (row i, column j) the colour
\* hwb_to_rgb((hue, 1000*i/7, 1000*j/7)).
C7_PaletteImage ==
    (fn = "palette" /\ pc /= "call") =>
        /\ len(pixels) = (STEPS * SIZE) * (STEPS * SIZE) * 3
        /\ \A r \in 1..Len(pixels.data) : Len(pixels.data[r]) = pixels.width * 3
        /\ ~pixels.panicked
        /\ pc = "panic" => ret.outcome \in SaveOutcomes \ {"saved"}
        /\ pc = "loop" =>
              LET a == palette_rect(arg, loop[1], loop[2])
              IN  a.x + a.w < pixels.width /\ a.y + a.h < pixels.height
        /\ (pc = "saved" \/ (pc = "panic" /\ ret.outcome = "write_image_data")) =>
              \A px \in 0..(STEPS * SIZE - 1), py \in 0..(STEPS * SIZE - 1) :
                  PixelAt(out, px, py) =
                      hwb_to_rgb(<<arg[1], (1000 * (py \div 16)) \div 7,
                                   (1000 * (px \div 16)) \div 7>>)

\* An image has been written whose swatch (row 2, column 3) shows its
\* colour at the centre and in the last pixel of its last row.
C7_Witness ==
    /\ fn = "palette" /\ pc = "saved"
    /\ arg[1] = 300
    /\ ret = [name |-> "images/palette30.png", outcome |-> "saved"]
    /\ PixelAt(out, 3 * 16 + 8, 2 * 16 + 8) = hwb_to_rgb(<<300, 285, 428>>)
    /\ PixelAt(out, 3 * 16 + 15, 2 * 16 + 15) = hwb_to_rgb(<<300, 285, 428>>)
    /\ hwb_to_rgb(<<300, 285, 428>>) /= <<255, 255, 255>>

\* The last write addressed a position outside the buffer.
AddressedOutside ==
    \/ arg.x + arg.w >= ret.width
    \/ arg.y + arg.h >= ret.height

\* C8: a write addressed outside the buffer, by set or by a rect reaching
\* past an edge, is fatal, and no pixel outside the addressed rectangle
\* changes.
C8_OutsideWriteIsFatal ==
    (fn = "pixels" /\ loop[1] > 0 /\ AddressedOutside) =>
        /\ pc = "panic"
        /\ \A px \in 0..(ret.width - 1), py \in 0..(ret.height - 1) :
               (px \notin arg.x..(arg.x + arg.w) \/ py \notin arg.y..(arg.y + arg.h))
                   => PixelAt(pixels, px, py) = PixelAt(ret, px, py)

-----------------------------------------------------------------------------
(* Properties of the fixed-point conversions *)

\* C1: on the chromatic path (whiteness + blackness < 1000, hue in 0..3599)
\* hwb_to_rgb returns the entry of the six-sector table built from
\* w = 255*whiteness/1000, vmax = 255 - 255*blackness/1000 and
\* xf = w + x*(vmax - w)/1000, where x is the permille ramp of the hue within
\* its sector, inverted in odd sectors; no intermediate byte leaves 0..255.
C1_HwbChromaticTable ==
    (fn = "hwb_to_rgb" /\ pc = "done" /\ arg[2] + arg[3] < 1000) =>
        LET hue == arg[1]
            w == (255 * arg[2]) \div 1000
            vmax == 255 - (255 * arg[3]) \div 1000
            sector == (hue \div 600) % 6
            x0 == ((hue % 600) * 1000) \div 600
            x == IF sector % 2 = 1 THEN 1000 - x0 ELSE x0
            xf == w + (x * (vmax - w)) \div 1000
            table == << <<vmax, xf, w>>, <<xf, vmax, w>>, <<w, vmax, xf>>,
                        <<w, xf, vmax>>, <<xf, w, vmax>>, <<vmax, w, xf>> >>
        IN  /\ ret = table[sector + 1]
            /\ {hwb_w(arg), hwb_b(arg), hwb_v(arg), hwb_scaled(arg), hwb_x(arg)}
                   \subseteq Byte

\* An odd-sector chromatic conversion has been carried out.
C1_Witness ==
    /\ fn = "hwb_to_rgb" /\ pc = "done"
    /\ arg = <<900, 200, 0>>
    /\ ret = <<153, 255, 51>>

\* C2: when whiteness + blackness >= 1000 (1000 itself included) hwb_to_rgb
\* ignores the hue and returns three equal channels
\* 255*(1000*whiteness/v)/1000; (h,1000,1000) gives 127s, (h,1000,0) gives
\* 255s and (h,0,1000) gives 0s.
C2_HwbAchromaticGray ==
    (fn = "hwb_to_rgb" /\ pc = "done" /\ arg[2] + arg[3] >= 1000) =>
        LET v == arg[2] + arg[3]
            g == (255 * ((1000 * arg[2]) \div v)) \div 1000
        IN  /\ ret = <<g, g, g>>
            /\ (arg[2] = 1000 /\ arg[3] = 1000) => ret = <<127, 127, 127>>
            /\ (arg[2] = 1000 /\ arg[3] = 0) => ret = <<255, 255, 255>>
            /\ (arg[2] = 0 /\ arg[3] = 1000) => ret = <<0, 0, 0>>

\* A gray has been produced for a non-zero hue at v exactly 1000.
C2_Witness ==
    /\ fn = "hwb_to_rgb" /\ pc = "done"
    /\ arg = <<900, 500, 500>>
    /\ ret = <<127, 127, 127>>

\* The nine colours of test_convert with the HWB triples it asserts.
TestConvertExpected ==
    (16711680 :> <<0, 0, 0>>) @@ (16744448 :> <<300, 0, 0>>)
        @@ (65280 :> <<1200, 0, 0>>) @@ (255 :> <<2400, 0, 0>>)
        @@ (16776960 :> <<600, 0, 0>>) @@ (65535 :> <<1800, 0, 0>>)
        @@ (16711935 :> <<3000, 0, 0>>) @@ (13382451 :> <<0, 200, 200>>)
        @@ (8421504 :> <<0, 500, 500>>)

\* C3: rgb_to_hwb(rgb(v)) is the HWB triple test_convert asserts, for each
\* of its nine colours.
C3_TestConvert ==
    (fn = "rgb_to_hwb" /\ pc = "done" /\ arg \in DOMAIN TestConvertExpected) =>
        ret = TestConvertExpected[arg]

\* C4: an achromatic triple (c,c,c) converted to HWB and back comes out
\* within 1 of c on every channel.
C4_AchromaticRoundTrip ==
    (fn = "rgb_to_hwb" /\ pc = "back" /\ min(rgb(arg)) = max(rgb(arg))) =>
        \A i \in 1..3 : out[i] - rgb(arg)[i] \in -1..1

\* A mid-gray has made the round trip and come back off by one.
C4_Witness ==
    /\ fn = "rgb_to_hwb" /\ pc = "back"
    /\ rgb(arg) = <<128, 128, 128>>
    /\ ret = <<0, 501, 498>>
    /\ out = <<129, 127, 127>>

\* C5 as stated: every channel of mix(p, a, b) is a + (b - a)*p/1000 with
\* the division truncating the product toward zero.
C5_MixTruncatedProduct ==
    (fn = "mix" /\ pc = "done") =>
        \A i \in 1..3 :
            ret[i] = arg[2][i] + TruncDiv((arg[3][i] - arg[2][i]) * arg[1], 1000)

\* C5 amended: every channel of mix(p, a, b) is a + floor((b - a)*p/1000):
\* the division is applied to the sum a*1000 + (b - a)*p, so a negative
\* product is rounded toward minus infinity.
C5_MixFloor ==
    (fn = "mix" /\ pc = "done") =>
        \A i \in 1..3 :
            ret[i] = arg[2][i] + ((arg[3][i] - arg[2][i]) * arg[1]) \div 1000

\* test_mix's call, with a falling, a rising and a level channel, has returned.
C5_Witness ==
    /\ fn = "mix" /\ pc = "done"
    /\ arg = <<500, <<255, 0, 127>>, <<0, 255, 127>>>>
    /\ ret = <<127, 127, 127>>

\* C6: hue_to_rgb returns the entry of the six-sector table for
\* x = (hue mod 600)*255/600 and y = 255 - x; the sector starts give red,
\* yellow, green, cyan, blue, magenta.
C6_HueToRgbTable ==
    (fn = "hue_to_rgb" /\ pc = "done") =>
        LET sector == (arg \div 600) % 6
            x == ((arg % 600) * 255) \div 600
            y == 255 - x
            table == << <<255, x, 0>>, <<y, 255, 0>>, <<0, 255, x>>,
                        <<0, y, 255>>, <<x, 0, 255>>, <<255, 0, y>> >>
        IN  /\ ret = table[sector + 1]
            /\ arg = 0 => ret = <<255, 0, 0>>
            /\ arg = 600 => ret = <<255, 255, 0>>
            /\ arg = 1200 => ret = <<0, 255, 0>>
            /\ arg = 1800 => ret = <<0, 255, 255>>
            /\ arg = 2400 => ret = <<0, 0, 255>>
            /\ arg = 3000 => ret = <<255, 0, 255>>

\* A hue in the middle of an odd sector has been converted.
C6_Witness ==
    /\ fn = "hue_to_rgb" /\ pc = "done"
    /\ arg = 900
    /\ ret = <<128, 255, 0>>

\* C10: rgb_to_hwb divides by a non-zero chroma range and returns a hue in
\* [0, 3600): 0 for an achromatic colour, otherwise the sector offset
\* 0/1200/2400 of the maximal channel plus 600*f/d, reduced modulo 3600.
C10_HueInRange ==
    (fn = "rgb_to_hwb" /\ pc \in {"done", "back"}) =>
        LET c == rgb(arg)
            offset == IF c[1] = max(c) THEN 0
                      ELSE IF c[2] = max(c) THEN 1200 ELSE 2400
        IN  /\ ret[1] \in 0..3599
            /\ min(c) = max(c) => ret[1] = 0
            /\ min(c) /= max(c) =>
                  /\ rgb_to_hwb_d(c) /= 0
                  /\ ret[1] = (offset + TruncDiv(600 * rgb_to_hwb_f(c),
                                                 rgb_to_hwb_d(c))) % 3600

\* Magenta, whose hue is negative before normalisation, has been converted.
C10_Witness ==
    /\ fn = "rgb_to_hwb" /\ pc = "done"
    /\ rgb(arg) = <<255, 0, 255>>
    /\ TruncDiv(600 * rgb_to_hwb_f(rgb(arg)), rgb_to_hwb_d(rgb(arg))) = -600
    /\ ret = <<3000, 0, 0>>

-----------------------------------------------------------------------------
(* Properties of the HSL pipeline *)

PrimarySweep ==
    <<"#ff0000", "#ff7f00", "#ffff00", "#7fff00", "#00ff00", "#00ff7f",
      "#00ffff", "#007fff", "#0000ff", "#7f00ff", "#ff00ff", "#ff007f">>
GraySweep == <<"#000000", "#3f3f3f", "#7f7f7f", "#bfbfbf", "#ffffff">>

\* C9: from_hsl(h, 1, 1) for h = 0, 30, ..., 330 prints as the twelve colours
\* of test_hsl and RGB::gray(k/4) for k = 0..4 as the five grays of
\* test_grays; every channel is (component + m)*255 with its fraction cut off.
C9_HslSweeps ==
    (fn = "from_hsl" /\ pc = "shown") =>
        /\ \A k \in 0..11 :
               arg = <<F32(30 * k), F32(1), F32(1)>> => out = PrimarySweep[k + 1]
        /\ \A k \in 0..4 :
               arg = <<F32(0), F32(0), FDiv(F32(k), F32(4))>> =>
                   /\ ret = RGB_gray(arg[3])
                   /\ out = GraySweep[k + 1]
        /\ LET C == (arg[3] * arg[2]) \div Unit
               m == arg[3] - C
               H == arg[1] \div 60
               X == (C * (Unit - FAbs((H % (2 * Unit)) - Unit))) \div Unit
               sector == (H \div Unit) % 6
               table == << <<C, X, 0>>, <<X, C, 0>>, <<0, C, X>>,
                           <<0, X, C>>, <<X, 0, C>>, <<C, 0, X>> >>
           IN  \A i \in 1..3 :
                   ret[i] = ((table[sector + 1][i] + m) * 255) \div Unit

\* Orange, whose green channel is 127.5 before the cast, has been printed.
C9_Witness ==
    /\ fn = "from_hsl" /\ pc = "shown"
    /\ arg = <<F32(30), F32(1), F32(1)>>
    /\ ret = <<255, 127, 0>>
    /\ out = "#ff7f00"

====
